---- MODULE Spec2Model ----
(***************************************************************************)
(* Batch ingestion pipeline of the Feedback Radar worker:                  *)
(*   validateFeedbackItem, validateFeedbackBatch, processSingleFeedback,   *)
(*   processFeedbackBatch, determineHttpStatusCode (batch-processor),      *)
(*   processSingleFeedback, triggerFeedbackWorkflow (feedback-processor),  *)
(*   validateFeedbackData, and POST /api/feedback with a JSON body.        *)
(*                                                                         *)
(* JavaScript values are records tagged by their type in field t.          *)
(* A string is [t |-> "string", lead, core, trail, date]: lead/trail are   *)
(* the numbers of leading/trailing whitespace characters, core the length  *)
(* of what trim() keeps, date whether new Date(s) is a valid date.         *)
(* Sequences are 1-based; the index field of a result is the 0-based       *)
(* JavaScript index.                                                        *)
(***************************************************************************)
EXTENDS Integers, Sequences, FiniteSets, TLC

\* ------------------------------------------------------------------ bounds
\* Longest array (besides the over-sized one) submitted in one request.
MaxLen == 3
\* Largest count given to the classifier when it is checked on its own.
MaxCount == 4

\* ------------------------------------------------------- program constants
maxBatchSize == 100
MaxContentLen == 10000
LongContentLen == 5000
ShortContentLen == 5
MaxSourceLen == 255
MaxPriorityLen == 50
MaxCategoryLen == 100
MaxUserIdLen == 255
\* 10 * 1024 * 1024 and 5 * 1024 * 1024 bytes
MaxFileSize == 10485760
LargeFileSize == 5242880

\* ------------------------------------------------------------- JS values
Undefined == [t |-> "undefined"]
Null == [t |-> "null"]
Num(n) == [t |-> "number", v |-> n]
Str(l, c, r) == [t |-> "string", lead |-> l, core |-> c, trail |-> r, date |-> FALSE]
DateStr(l, c, r) == [t |-> "string", lead |-> l, core |-> c, trail |-> r, date |-> TRUE]
Msg(s) == [t |-> "message", msg |-> s]

IsUndefined(v) == v.t = "undefined"
IsNullish(v) == v.t \in {"undefined", "null"}
IsString(v) == v.t = "string"

\* String.prototype.length and String.prototype.trim
StrLen(s) == s.lead + s.core + s.trail
Trim(s) == [s EXCEPT !.lead = 0, !.trail = 0]
IsEmptyStr(s) == StrLen(s) = 0

\* An object item: {content, source, metadata, ...extra keys}
Obj(c, s, m, x) == [t |-> "object", content |-> c, source |-> s, metadata |-> m, extra |-> x]
\* A metadata object
Meta(p, c, ts, u) == [t |-> "object", priority |-> p, category |-> c, timestamp |-> ts, userId |-> u]
\* The empty array given as an item: typeof [] is 'object' and [] is truthy
ArrItem == [t |-> "array"]

\* item.content, item.source, item.metadata (undefined on a value without them)
Field(item, f) == IF item.t = "object" THEN item[f] ELSE Undefined
\* Object.keys(item) minus the allowed fields
UnexpectedFields(item) == IF item.t = "object" THEN item.extra ELSE {}

\* ------------------------------------------------- validateFeedbackItem
ContentErrors(c) ==
    IF IsNullish(c) THEN <<"Field is required">>
    ELSE IF ~IsString(c) THEN <<"Must be a string">>
    ELSE IF IsEmptyStr(Trim(c)) THEN <<"Cannot be empty or whitespace only">>
    ELSE IF StrLen(c) > MaxContentLen THEN <<"Content too long">>
    ELSE <<>>

\* A warning: its text and, for the unexpected-fields warning, the names it lists
Warn(text, names) == [text |-> text, fields |-> names]

ContentWarnings(c) ==
    IF IsNullish(c) \/ ~IsString(c) THEN <<>>
    ELSE IF IsEmptyStr(Trim(c)) THEN <<>>
    ELSE (IF StrLen(c) < ShortContentLen THEN <<Warn("Content is very short", {})>> ELSE <<>>)
         \o (IF StrLen(c) > MaxContentLen THEN <<>>
             ELSE IF StrLen(c) > LongContentLen THEN <<Warn("Content is quite long", {})>>
             ELSE <<>>)

SourceErrors(s) ==
    IF IsNullish(s) THEN <<"Field is required">>
    ELSE IF ~IsString(s) THEN <<"Must be a string">>
    ELSE IF IsEmptyStr(Trim(s)) THEN <<"Cannot be empty or whitespace only">>
    ELSE IF StrLen(s) > MaxSourceLen THEN <<"Source too long">>
    ELSE <<>>

\* One optional metadata string field with a maximum length
MetaStrErrors(v, name, max) ==
    IF IsUndefined(v) THEN <<>>
    ELSE IF ~IsString(v) THEN <<name \o " must be a string">>
    ELSE IF StrLen(v) > max THEN <<name \o " too long">>
    ELSE <<>>

MetaTimestampErrors(v) ==
    IF IsUndefined(v) THEN <<>>
    ELSE IF ~IsString(v) THEN <<"timestamp must be a string">>
    ELSE IF ~v.date THEN <<"timestamp must be a valid ISO date string">>
    ELSE <<>>

MetadataErrors(m) ==
    IF IsUndefined(m) THEN <<>>
    ELSE IF m.t \notin {"object", "array"} THEN <<"Must be an object if provided">>
    ELSE IF m.t = "array" THEN <<>>
    ELSE MetaStrErrors(m.priority, "priority", MaxPriorityLen)
         \o MetaStrErrors(m.category, "category", MaxCategoryLen)
         \o MetaTimestampErrors(m.timestamp)
         \o MetaStrErrors(m.userId, "userId", MaxUserIdLen)

\* variant: the source and metadata rules are skipped once content is in error
FieldErrorsOfFirstOnly(item) ==
    LET errs == [f \in {"content", "source", "metadata"} |->
                    CASE f = "content" -> ContentErrors(Field(item, "content"))
                      [] f = "source" -> SourceErrors(Field(item, "source"))
                      [] f = "metadata" -> MetadataErrors(Field(item, "metadata"))]
        bad == {f \in DOMAIN errs : errs[f] # <<>>}
    IN [f \in (IF "content" \in bad THEN {"content"} ELSE bad) |-> errs[f]]

\* The fieldErrors object: a function from the fields in error to their messages
FieldErrorsOf(item) ==
    LET errs == [f \in {"content", "source", "metadata"} |->
                    CASE f = "content" -> ContentErrors(Field(item, "content"))
                      [] f = "source" -> SourceErrors(Field(item, "source"))
                      [] f = "metadata" -> MetadataErrors(Field(item, "metadata"))]
        bad == {f \in DOMAIN errs : errs[f] # <<>>}
    IN [f \in bad |-> errs[f]]

\* variant: the unexpected fields are ignored without a warning
WarningsOfSilent(item) ==
    ContentWarnings(Field(item, "content"))

WarningsOf(item) ==
    ContentWarnings(Field(item, "content"))
    \o (IF UnexpectedFields(item) # {}
        THEN <<Warn("Unexpected fields will be ignored", UnexpectedFields(item))>>
        ELSE <<>>)

validateFeedbackItem(item, index) ==
    IF item.t \notin {"object", "array"}
    THEN [success |-> FALSE, index |-> index, fieldErrors |-> <<>>,
          generalErrors |-> <<"Must be a valid object">>, warnings |-> <<>>,
          summary |-> "Invalid item structure"]
    ELSE LET fe == FieldErrorsOf(item)
             hasFieldErrors == DOMAIN fe # {}
         IN [success |-> ~hasFieldErrors, index |-> index, fieldErrors |-> fe,
             generalErrors |-> <<>>, warnings |-> WarningsOf(item),
             summary |-> IF hasFieldErrors THEN "Validation failed" ELSE "Valid"]

\* ------------------------------------------------ validateFeedbackBatch
\* The inputs: an array [t |-> "array", items |-> <<...>>], null, or a string
IsArray(input) == input.t = "array"

\* the for loop of validateFeedbackBatch: itemResults for items[1..k], the
\* result of iteration k carrying the 0-based index k - 1
ValidateItems(items, k) ==
    [j \in 1..k |-> validateFeedbackItem(items[j], j - 1)]

\* variant: the counter misses the first iteration
CountIfSkipFirst(flags, k) ==
    Cardinality({j \in 2..k : flags[j]})

\* a counter incremented in the loop at each of the first k iterations whose flag is set
CountIf(flags, k) ==
    Cardinality({j \in 1..k : flags[j]})

EmptySummary == [total |-> 0, valid |-> 0, invalid |-> 0, warnings |-> 0]

\* variant: an array of exactly maxBatchSize items is over the limit
TooLargeInclusive(n) == n >= maxBatchSize

\* feedbackArray.length > maxBatchSize
TooLarge(n) == n > maxBatchSize

\* variant: success does not depend on invalidCount
validateFeedbackBatchLenient(input) ==
    IF ~IsArray(input)
    THEN [success |-> FALSE, batchErrors |-> <<"Input must be an array of feedback items">>,
          itemResults |-> <<>>, summary |-> EmptySummary]
    ELSE IF Len(input.items) = 0
    THEN [success |-> FALSE, batchErrors |-> <<"Array cannot be empty">>,
          itemResults |-> <<>>, summary |-> EmptySummary]
    ELSE IF TooLarge(Len(input.items))
    THEN [success |-> FALSE, batchErrors |-> <<"Batch size too large">>,
          itemResults |-> <<>>,
          summary |-> [total |-> Len(input.items), valid |-> 0,
                       invalid |-> Len(input.items), warnings |-> 0]]
    ELSE LET n == Len(input.items)
             itemResults == ValidateItems(input.items, n)
             validCount == CountIf([k \in 1..n |-> itemResults[k].success], n)
             invalidCount == CountIf([k \in 1..n |-> ~itemResults[k].success], n)
             warningCount == CountIf([k \in 1..n |-> Len(itemResults[k].warnings) > 0], n)
         IN [success |-> TRUE,
             batchErrors |-> IF invalidCount > 0 THEN <<"items failed validation">> ELSE <<>>,
             itemResults |-> itemResults,
             summary |-> [total |-> n, valid |-> validCount,
                          invalid |-> invalidCount, warnings |-> warningCount]]

validateFeedbackBatch(input) ==
    IF ~IsArray(input)
    THEN [success |-> FALSE, batchErrors |-> <<"Input must be an array of feedback items">>,
          itemResults |-> <<>>, summary |-> EmptySummary]
    ELSE IF Len(input.items) = 0
    THEN [success |-> FALSE, batchErrors |-> <<"Array cannot be empty">>,
          itemResults |-> <<>>, summary |-> EmptySummary]
    ELSE IF TooLarge(Len(input.items))
    THEN [success |-> FALSE, batchErrors |-> <<"Batch size too large">>,
          itemResults |-> <<>>,
          summary |-> [total |-> Len(input.items), valid |-> 0,
                       invalid |-> Len(input.items), warnings |-> 0]]
    ELSE LET n == Len(input.items)
             itemResults == ValidateItems(input.items, n)
             validCount == CountIf([k \in 1..n |-> itemResults[k].success], n)
             invalidCount == CountIf([k \in 1..n |-> ~itemResults[k].success], n)
             warningCount == CountIf([k \in 1..n |-> Len(itemResults[k].warnings) > 0], n)
         IN [success |-> invalidCount = 0,
             batchErrors |-> IF invalidCount > 0 THEN <<"items failed validation">> ELSE <<>>,
             itemResults |-> itemResults,
             summary |-> [total |-> n, valid |-> validCount,
                          invalid |-> invalidCount, warnings |-> warningCount]]

\* -------------------------------------------------------------- inputs
\* Feedback items submitted in the arrays of the main specification
GoodItem == Obj(Str(0, 20, 0), Str(0, 6, 0), Undefined, {})
PaddedItem == Obj(Str(1, 2, 1), Str(1, 3, 0), Meta(Str(0, 4, 0), Undefined, DateStr(0, 24, 0), Undefined), {"tag"})
NoContentItem == Obj(Undefined, Str(0, 6, 0), Undefined, {})
TwoErrorsItem == Obj(Str(0, 10001, 0), Str(2, 0, 0), Undefined, {})
NullItem == Null

Items == {GoodItem, PaddedItem, NoContentItem, TwoErrorsItem, NullItem}

Arr(seq) == [t |-> "array", items |-> seq]

\* Arrays of at most MaxLen items, and arrays one item over the size limit
SmallArrays == {Arr(seq) : seq \in UNION {[1..n -> Items] : n \in 0..MaxLen}}
OversizedArrays == {Arr([k \in 1..(maxBatchSize + 1) |-> it]) : it \in {GoodItem, NoContentItem}}
\* Arrays of exactly the size limit (holding an item that fails validation)
FullArrays ==
    {Arr([k \in 1..maxBatchSize |-> NoContentItem]),
     Arr([k \in 1..maxBatchSize |-> IF k = maxBatchSize THEN NullItem ELSE GoodItem])}
\* Values that are not arrays, as a direct caller of processFeedbackBatch can pass
NonArrays == {Null, Str(0, 3, 0)}

Inputs == SmallArrays \cup FullArrays \cup OversizedArrays \cup NonArrays

\* feedbackArray.length (reading it on null throws a TypeError)
InputLength(input) == IF IsArray(input) THEN Len(input.items) ELSE StrLen(input)

\* ------------------------------------------ bodies of POST /api/feedback
\* A body that c.req.json() cannot parse
Malformed == [t |-> "malformed"]
\* A JSON object with neither a mockData nor a feedback array: an unwrapped item,
\* with or without a top-level timestamp (a key outside {content, source, metadata})
SingleBody(c, s, m, ts) ==
    [t |-> "object", content |-> c, source |-> s, metadata |-> m,
     extra |-> IF IsUndefined(ts) THEN {} ELSE {"timestamp"}, timestamp |-> ts]
BodyContents == {Undefined, Str(0, 0, 0), Str(2, 0, 0), Str(1, 2, 1), Str(0, 20, 0), Str(0, 10001, 0)}
BodySources == {Undefined, Str(0, 6, 0), Str(0, 256, 0)}
BodyMetadata == {Undefined, Num(7), Meta(Num(1), Undefined, Undefined, Undefined),
                 Meta(Str(0, 4, 0), Undefined, DateStr(0, 24, 0), Undefined)}
BodyTimestamps == {Undefined, DateStr(0, 24, 0), Str(0, 9, 0)}
SingleBodies ==
    {SingleBody(c, s, m, ts) : c \in BodyContents, s \in BodySources,
                               m \in BodyMetadata, ts \in BodyTimestamps}
\* A File of a multipart body: its size in bytes and whether its type is image/*
File(size, image) == [t |-> "file", size |-> size, image |-> image]
\* A multipart/form-data body: text fields content, source, timestamp and a field
\* file that is absent, a File, or a text field
FormBody(c, s, ts, f) ==
    [t |-> "form", content |-> c, source |-> s, timestamp |-> ts, file |-> f]
FormFiles ==
    {Undefined, Str(0, 4, 0), File(1024, TRUE), File(LargeFileSize + 1, FALSE),
     File(MaxFileSize + 1, TRUE)}
FormBodies ==
    {FormBody(c, s, ts, f) : c \in {Undefined, Str(0, 20, 0)}, s \in {Undefined, Str(0, 6, 0)},
                             ts \in {Undefined, DateStr(0, 24, 0)}, f \in FormFiles}
\* What a client can post: {feedback: [...]}, an unwrapped item, the JSON text
\* null, text that is not JSON, or a multipart form
PostBodies ==
    SmallArrays \cup FullArrays \cup OversizedArrays \cup SingleBodies \cup {Null, Malformed}
    \cup FormBodies

\* !value of JavaScript
Falsy(v) ==
    \/ IsNullish(v)
    \/ IsString(v) /\ StrLen(v) = 0
    \/ v.t = "number" /\ v.v = 0

\* ------------------------------ validateFeedbackData (feedback-processor)
\* isNaN(Date.parse(timestamp)) on a required timestamp
TimestampErrors(ts) ==
    IF IsNullish(ts) THEN <<"Field is required">>
    ELSE IF ~(IsString(ts) /\ ts.date) THEN <<"Must be a valid ISO date string">>
    ELSE <<>>

\* the file rules of validateFeedbackData
FileErrors(f) ==
    IF IsNullish(f) THEN <<>>
    ELSE IF f.t # "file" THEN <<"Must be a valid File or Blob object">>
    ELSE IF f.size > MaxFileSize THEN <<"File too large">>
    ELSE <<>>
FileWarnings(f) ==
    IF IsNullish(f) \/ f.t # "file" THEN <<>>
    ELSE (IF f.size <= MaxFileSize /\ f.size > LargeFileSize
          THEN <<Warn("Large file size", {})>> ELSE <<>>)
         \o (IF ~f.image THEN <<Warn("File does not appear to be an image", {})>> ELSE <<>>)

\* feedbackData is {content, source, timestamp} or {content, source, timestamp,
\* file} as built by the endpoint
validateFeedbackData(data) ==
    LET errs == [f \in {"content", "source", "timestamp", "file"} |->
                    CASE f = "content" -> ContentErrors(data.content)
                      [] f = "source" -> SourceErrors(data.source)
                      [] f = "timestamp" -> TimestampErrors(data.timestamp)
                      [] f = "file" -> FileErrors(data.file)]
        bad == {f \in DOMAIN errs : errs[f] # <<>>}
    IN [isValid |-> bad = {}, fieldErrors |-> [f \in bad |-> errs[f]],
        generalErrors |-> <<>>,
        warnings |-> ContentWarnings(data.content) \o FileWarnings(data.file)]

\* ------------------------------------------------------ collaborators
\* env.DB ... .all() of the INSERT: returns the row, returns no row, or throws
\* an error with or without a message
InsertOutcomes == {"row", "empty", "throw", "throwNoMessage"}
\* env.AI.run of the analysis model: a JSON answer, unparseable text, or an exception
AIOutcomes == {"json", "garbage", "throw"}

VARIABLES
    entry,            \* "direct": processFeedbackBatch called; "post": POST /api/feedback
    vectorizeBound,   \* whether env.VECTORIZE_INDEX is bound
    input,            \* feedbackArray / batchData
    pc,               \* position of the request handler
    validation,       \* validation of processFeedbackBatch
    i,                \* loop index of processFeedbackBatch (0-based)
    results,          \* results of processFeedbackBatch
    processedCount,
    failedCount,
    feedbackData,     \* argument of the shared processSingleFeedback
    feedback,         \* results[0] of the INSERT
    analysis,         \* sentiment, score, reason, themes bound to the UPDATE
    triggered,        \* return value of triggerFeedbackWorkflow
    processingResult, \* return value of the batch processSingleFeedback
    batchResult,      \* return value of processFeedbackBatch
    response,         \* HTTP response of the endpoint
    db,               \* rows of table feedback, in id order
    vectors,          \* ids upserted into VECTORIZE_INDEX
    invoked,          \* history: indices passed to processSingleFeedback
    attempts,         \* history: index and outcome of every INSERT issued
    triggerLog,       \* history: index and return value of every triggerFeedbackWorkflow
    arg,              \* argument of determineHttpStatusCode (classifier on its own)
    code,             \* its return value
    bucket,           \* keys stored in FEEDBACK_BUCKET
    reqs,             \* concurrent submissions: position and locals of each
    breakdown         \* what GET /api/dashboard last computed with getSourceBreakdown

vars == <<entry, vectorizeBound, input, pc, validation, i, results, processedCount,
          failedCount, feedbackData, feedback, analysis, triggered, processingResult,
          batchResult, response, db, vectors, invoked, attempts, triggerLog, arg, code,
          bucket, reqs, breakdown>>

\* -------------------------------------------------- pure parts of the code
JsArr(seq) == [t |-> "array", v |-> seq]
JsObj(map) == [t |-> "object", map |-> map]

\* results entry of an item that failed validation (loop path)
InvalidItemResult(itemValidation, idx) ==
    [index |-> idx, success |-> FALSE, feedbackId |-> Undefined,
     error |-> Msg(itemValidation.summary),
     fieldErrors |-> JsObj(itemValidation.fieldErrors),
     generalErrors |-> JsArr(itemValidation.generalErrors),
     warnings |-> JsArr(itemValidation.warnings), processingError |-> FALSE]

\* results entry synthesized from validation on the early return
EarlyItemResult(result) ==
    [index |-> result.index, success |-> FALSE, feedbackId |-> Undefined,
     error |-> Msg(IF result.success THEN "Batch validation failed" ELSE result.summary),
     fieldErrors |-> JsObj(result.fieldErrors),
     generalErrors |-> JsArr(result.generalErrors),
     warnings |-> JsArr(result.warnings), processingError |-> FALSE]

\* results entry of a processed item
SuccessResult(idx, pr, itemValidation) ==
    [index |-> idx, success |-> TRUE, feedbackId |-> pr.feedbackId, error |-> Undefined,
     fieldErrors |-> Undefined, generalErrors |-> Undefined,
     warnings |-> IF Len(itemValidation.warnings) > 0
                  THEN JsArr(itemValidation.warnings) ELSE Undefined,
     processingError |-> FALSE]

\* variant: the failure entry carries the 1-based position
ProcessingFailureResultOneBased(idx, pr) ==
    [index |-> idx + 1, success |-> FALSE, feedbackId |-> Undefined, error |-> pr.error,
     fieldErrors |-> Undefined, generalErrors |-> Undefined, warnings |-> Undefined,
     processingError |-> TRUE]

\* results entry of an item whose processing failed
ProcessingFailureResult(idx, pr) ==
    [index |-> idx, success |-> FALSE, feedbackId |-> Undefined, error |-> pr.error,
     fieldErrors |-> Undefined, generalErrors |-> Undefined, warnings |-> Undefined,
     processingError |-> TRUE]

\* the early return of processFeedbackBatch
EarlyBatchResult(len, v) ==
    [success |-> FALSE, total |-> len, processed |-> 0, failed |-> len,
     batchErrors |-> JsArr(v.batchErrors), validationSummary |-> v.summary,
     results |-> [k \in 1..Len(v.itemResults) |-> EarlyItemResult(v.itemResults[k])]]

\* the final return of processFeedbackBatch
FinalBatchResult(len, v, rs, processed, failed) ==
    [success |-> failed = 0, total |-> len, processed |-> processed, failed |-> failed,
     batchErrors |-> Undefined, validationSummary |-> v.summary, results |-> rs]

\* error.message || 'Unknown processing error'
ErrorMessage(outcome) ==
    IF outcome = "throwNoMessage" THEN "Unknown processing error" ELSE "D1_ERROR"

\* variant: error is error.message without the fallback text
CaughtResultNoFallback(outcome) ==
    [success |-> FALSE, feedbackId |-> Undefined,
     error |-> Msg(IF outcome = "throwNoMessage" THEN "" ELSE "D1_ERROR")]

\* catch block of the batch processSingleFeedback
CaughtResult(outcome) ==
    [success |-> FALSE, feedbackId |-> Undefined, error |-> Msg(ErrorMessage(outcome))]

\* variant: feedbackId read from result.feedbackId, a field the row does not have
ReturnedResultWrongField(fb) ==
    [success |-> TRUE, feedbackId |-> Undefined, error |-> Undefined]

\* return statement of the batch processSingleFeedback: feedbackId is result.id
ReturnedResult(fb) ==
    [success |-> TRUE,
     feedbackId |-> IF fb.t = "object" THEN Num(fb.row.id) ELSE Undefined,
     error |-> Undefined]

\* the row written by the INSERT of the shared processSingleFeedback
Unknown == Str(0, 7, 0)
\* `${Date.now()}-${file.name || 'upload'}`
ImageKey == Str(0, 20, 0)
\* file && (file instanceof File || file instanceof Blob)
HasFile(data) == data.file.t = "file"
NewRecord(id, data) ==
    [id |-> id, content |-> data.content,
     source |-> IF IsEmptyStr(data.source) THEN Unknown ELSE data.source,
     sentiment |-> "Pending", urgency_score |-> 0, urgency_reason |-> "Analyzing...",
     themes |-> <<>>, status |-> "New",
     image_key |-> IF HasFile(data) THEN ImageKey ELSE Null]

\* parse of the AI answer followed by "Ensure types"
AnalysisOf(outcome) ==
    IF outcome = "json"
    THEN [sentiment |-> "Negative", urgency_score |-> 8, urgency_reason |-> "Login broken",
          themes |-> <<"Auth">>]
    ELSE [sentiment |-> "Neutral", urgency_score |-> 5, urgency_reason |-> "AI parsing failed",
          themes |-> <<>>]

\* variant: the UPDATE without its WHERE clause
UpdateRowAll(rows, id, a) ==
    [k \in 1..Len(rows) |->
        [rows[k] EXCEPT !.sentiment = a.sentiment, !.urgency_score = a.urgency_score,
                        !.urgency_reason = a.urgency_reason, !.themes = a.themes,
                        !.status = "New"]]

\* UPDATE feedback SET ... status = 'New' WHERE id = ?
UpdateRow(rows, id, a) ==
    [k \in 1..Len(rows) |->
        IF rows[k].id = id
        THEN [rows[k] EXCEPT !.sentiment = a.sentiment, !.urgency_score = a.urgency_score,
                             !.urgency_reason = a.urgency_reason, !.themes = a.themes,
                             !.status = "New"]
        ELSE rows[k]]

HasBatchErrors(b) == b.batchErrors.t = "array" /\ Len(b.batchErrors.v) > 0

\* variant: the partial-success test placed before the all-failed test and
\* written with processed >= 0
determineHttpStatusCodeReordered(b) ==
    IF HasBatchErrors(b) THEN 400
    ELSE IF b.total = 0 THEN 400
    ELSE IF b.processed >= 0 /\ b.failed > 0 THEN 207
    ELSE IF b.failed = b.total THEN 400
    ELSE IF b.processed = b.total THEN 200
    ELSE 500

determineHttpStatusCode(b) ==
    IF HasBatchErrors(b) THEN 400
    ELSE IF b.total = 0 THEN 400
    ELSE IF b.failed = b.total THEN 400
    ELSE IF b.processed > 0 /\ b.failed > 0 THEN 207
    ELSE IF b.processed = b.total THEN 200
    ELSE 500

\* body and status of formatBatchResponseWithStatus + c.json(response, statusCode)
BatchResponse(b) ==
    [status |-> determineHttpStatusCode(b), success |-> b.success,
     total |-> Num(b.total), processed |-> Num(b.processed), failed |-> Num(b.failed),
     results |-> JsArr(b.results),
     batchErrors |-> IF HasBatchErrors(b) THEN b.batchErrors ELSE Undefined,
     validationSummary |-> b.validationSummary]

\* formatValidationErrors + c.json(errorResponse, 400): the body has no
\* total/processed/failed/results keys; itemValidation is present when items
\* were validated one by one
ValidationErrorResponse(v) ==
    [status |-> 400, success |-> v.success,
     total |-> Undefined, processed |-> Undefined, failed |-> Undefined,
     results |-> Undefined,
     batchErrors |-> IF Len(v.batchErrors) > 0 THEN JsArr(v.batchErrors) ELSE Undefined,
     validationSummary |-> v.summary,
     itemValidation |->
        IF Len(v.itemResults) > 0
        THEN JsArr([k \in 1..Len(v.itemResults) |->
                      [index |-> v.itemResults[k].index, valid |-> v.itemResults[k].success]])
        ELSE Undefined]

\* createErrorResponse('processing_error', ...) + c.json(errorResponse, 500)
ServerErrorResponse ==
    [status |-> 500, error |-> "Failed to process feedback", type |-> "processing_error"]

\* the 400 of the mandatory-fields check of the single branch
MissingFieldsResponse(data) ==
    [status |-> 400, error |-> "Invalid feedback data",
     fieldErrors |-> [f \in {g \in {"content", "source", "timestamp"} : Falsy(data[g])} |->
                         <<"Field is required">>]]

\* the 400 of the single branch after validateFeedbackData
InvalidDataResponse(v) ==
    [status |-> 400, error |-> "Invalid feedback data", fieldErrors |-> v.fieldErrors]

\* c.json(result): the inserted row, the message and the validation warnings
SingleResponse(fb, v) ==
    [status |-> 200, record |-> fb, message |-> "Feedback received. Analysis in progress.",
     warnings |-> IF Len(v.warnings) > 0 THEN JsArr(v.warnings) ELSE Undefined]

\* ------------------------------------------------------------- the machine
\* the request is an unwrapped item posted to the endpoint as JSON
IsSingle == entry = "post" /\ input.t = "object"
\* the request takes the single branch of the endpoint (JSON or multipart)
IsUnwrapped == entry = "post" /\ input.t \in {"object", "form"}

Idle ==
    /\ validation = Undefined /\ i = 0 /\ results = <<>>
    /\ processedCount = 0 /\ failedCount = 0
    /\ feedbackData = Undefined /\ feedback = Undefined /\ analysis = Undefined
    /\ triggered = FALSE /\ processingResult = Undefined
    /\ batchResult = Undefined /\ response = Undefined
    /\ db = <<>> /\ vectors = {} /\ invoked = <<>> /\ attempts = <<>>
    /\ triggerLog = <<>>
    /\ bucket = {}

\* no other request is being served
Quiet == reqs = <<>> /\ breakdown = Undefined

\* A request arrives: a direct call of processFeedbackBatch with any input, or a
\* POST /api/feedback with a JSON content type and any body
Init ==
    /\ entry \in {"direct", "post"}
    /\ vectorizeBound \in BOOLEAN
    /\ input \in Inputs \cup PostBodies
    /\ entry = "post" => input \in PostBodies
    /\ entry = "direct" => input \in Inputs
    /\ pc = IF entry = "post" THEN "parse" ELSE "call"
    /\ Idle /\ Quiet
    /\ arg = Undefined /\ code = 0

\* POST /api/feedback, "1. Parse Input": c.req.json() throws on text that is not
\* JSON and tempBody.mockData throws on null; both reach the outer catch
ParseBody ==
    /\ pc = "parse"
    /\ IF input \in {Malformed, Null}
       THEN /\ response' = ServerErrorResponse
            /\ pc' = "errored"
       ELSE /\ response' = response
            /\ pc' = IF IsArray(input) THEN "start" ELSE "single"
    /\ UNCHANGED <<bucket, reqs, breakdown, entry, vectorizeBound, input, validation, i, results, processedCount,
                   failedCount, feedbackData, feedback, analysis, triggered,
                   processingResult, batchResult, db, vectors, invoked, attempts, arg, code, triggerLog>>

\* POST /api/feedback, single branch: the mandatory-fields check and
\* validateFeedbackData before the shared processSingleFeedback
PostSingle ==
    /\ pc = "single"
    /\ LET data == [content |-> input.content, source |-> input.source,
                    timestamp |-> input.timestamp,
                    file |-> IF input.t = "form" THEN input.file ELSE Undefined]
           v == validateFeedbackData(data)
       IN IF Falsy(data.content) \/ Falsy(data.source) \/ Falsy(data.timestamp)
          THEN /\ response' = MissingFieldsResponse(data)
               /\ pc' = "refused"
               /\ UNCHANGED <<validation, feedbackData>>
          ELSE IF ~v.isValid
          THEN /\ response' = InvalidDataResponse(v)
               /\ validation' = v
               /\ pc' = "refused"
               /\ UNCHANGED feedbackData
          ELSE /\ feedbackData' = data
               /\ validation' = v
               /\ pc' = IF HasFile(data) THEN "upload" ELSE "insert"
               /\ UNCHANGED response
    /\ UNCHANGED <<bucket, reqs, breakdown, entry, vectorizeBound, input, i, results, processedCount,
                   failedCount, feedback, analysis, triggered,
                   processingResult, batchResult, db, vectors, invoked, attempts, arg, code, triggerLog>>

\* POST /api/feedback, batch branch: the validation gate before processFeedbackBatch
PostFeedback ==
    /\ pc = "start"
    /\ LET v == validateFeedbackBatch(input)
       IN IF ~v.success
          THEN /\ response' = ValidationErrorResponse(v)
               /\ pc' = "rejected"
          ELSE /\ response' = response
               /\ pc' = "call"
    /\ UNCHANGED <<bucket, reqs, breakdown, entry, vectorizeBound, input, validation, i, results, processedCount,
                   failedCount, feedbackData, feedback, analysis, triggered,
                   processingResult, batchResult, db, vectors, invoked, attempts, arg, code, triggerLog>>

\* processFeedbackBatch up to the loop: validate, return early or start the loop
ProcessFeedbackBatch ==
    /\ pc = "call"
    /\ LET v == validateFeedbackBatch(input)
       IN /\ validation' = v
          /\ IF ~v.success
             THEN IF input.t = "null"
                  THEN /\ pc' = "raised"
                       /\ batchResult' = batchResult
                  ELSE /\ pc' = "returned"
                       /\ batchResult' = EarlyBatchResult(InputLength(input), v)
             ELSE /\ pc' = "loop"
                  /\ batchResult' = batchResult
    /\ i' = 0 /\ results' = <<>> /\ processedCount' = 0 /\ failedCount' = 0
    /\ UNCHANGED <<bucket, reqs, breakdown, entry, vectorizeBound, input, feedbackData, feedback, analysis,
                   triggered, processingResult, response, db, vectors, invoked,
                   attempts, arg, code, triggerLog>>

\* variant: content and source are passed on as submitted, without trim()
ProcessItemUntrimmed ==
    /\ pc = "loop"
    /\ i < Len(input.items)
    /\ LET feedbackItem == input.items[i + 1]
           itemValidation == validation.itemResults[i + 1]
       IN IF ~itemValidation.success
          THEN /\ results' = Append(results, InvalidItemResult(itemValidation, i))
               /\ failedCount' = failedCount + 1
               /\ i' = i + 1
               /\ pc' = "loop"
               /\ UNCHANGED <<feedbackData, invoked>>
          ELSE /\ feedbackData' = [content |-> feedbackItem.content,
                                   source |-> feedbackItem.source, file |-> Null]
               /\ invoked' = Append(invoked, i)
               /\ pc' = "insert"
               /\ UNCHANGED <<results, failedCount, i>>
    /\ UNCHANGED <<bucket, reqs, breakdown, entry, vectorizeBound, input, validation, processedCount, feedback,
                   analysis, triggered, processingResult, batchResult, response, db,
                   vectors, attempts, arg, code, triggerLog>>

\* one iteration of the loop up to the await: an item that failed validation is
\* recorded and skipped, a valid one is trimmed and passed to processSingleFeedback
ProcessItem ==
    /\ pc = "loop"
    /\ i < Len(input.items)
    /\ LET feedbackItem == input.items[i + 1]
           itemValidation == validation.itemResults[i + 1]
       IN IF ~itemValidation.success
          THEN /\ results' = Append(results, InvalidItemResult(itemValidation, i))
               /\ failedCount' = failedCount + 1
               /\ i' = i + 1
               /\ pc' = "loop"
               /\ UNCHANGED <<feedbackData, invoked>>
          ELSE /\ feedbackData' = [content |-> Trim(feedbackItem.content),
                                   source |-> Trim(feedbackItem.source), file |-> Null]
               /\ invoked' = Append(invoked, i)
               /\ pc' = "insert"
               /\ UNCHANGED <<results, failedCount, i>>
    /\ UNCHANGED <<bucket, reqs, breakdown, entry, vectorizeBound, input, validation, processedCount, feedback,
                   analysis, triggered, processingResult, batchResult, response, db,
                   vectors, attempts, arg, code, triggerLog>>

\* shared processSingleFeedback, "1. Upload file to R2 if provided":
\* env.FEEDBACK_BUCKET.put stores the file or throws (outer catch of the endpoint)
UploadFile ==
    /\ pc = "upload"
    /\ \E ok \in BOOLEAN :
         IF ok
         THEN /\ bucket' = bucket \cup {ImageKey}
              /\ pc' = "insert"
              /\ UNCHANGED response
         ELSE /\ response' = ServerErrorResponse
              /\ pc' = "errored"
              /\ UNCHANGED bucket
    /\ UNCHANGED <<reqs, breakdown, entry, vectorizeBound, input, validation, i, results,
                   processedCount, failedCount, feedbackData, feedback, analysis,
                   triggered, processingResult, batchResult, db, vectors, invoked,
                   attempts, arg, code, triggerLog>>

\* shared processSingleFeedback: the INSERT ... RETURNING *. An exception leaves
\* the shared function and is caught by the batch processSingleFeedback, or by
\* the outer catch of the endpoint in the single branch; with no
\* row returned, feedback is undefined, triggerFeedbackWorkflow fails on
\* feedback.id inside its try and returns false
InsertFeedback ==
    /\ pc = "insert"
    /\ \E outcome \in InsertOutcomes :
         /\ attempts' = Append(attempts, [index |-> i, outcome |-> outcome])
         /\ CASE outcome = "row" ->
                  LET rec == NewRecord(Len(db) + 1, feedbackData)
                  IN /\ db' = Append(db, rec)
                     /\ feedback' = [t |-> "object", row |-> rec]
                     /\ pc' = "ai"
                     /\ UNCHANGED <<triggered, processingResult, response>>
             [] outcome = "empty" ->
                  /\ feedback' = Undefined
                  /\ triggered' = FALSE
                  /\ pc' = "sret"
                  /\ UNCHANGED <<db, processingResult, response>>
             [] OTHER ->
                  IF IsUnwrapped
                  THEN /\ response' = ServerErrorResponse
                       /\ pc' = "errored"
                       /\ UNCHANGED <<db, feedback, triggered, processingResult>>
                  ELSE /\ processingResult' = CaughtResult(outcome)
                       /\ pc' = "result"
                       /\ UNCHANGED <<db, feedback, triggered, response>>
    /\ UNCHANGED <<bucket, reqs, breakdown, entry, vectorizeBound, input, validation, i, results, processedCount,
                   failedCount, feedbackData, analysis, batchResult, vectors,
                   invoked, arg, code, triggerLog>>

\* variant: triggerFeedbackWorkflow without its try/catch, so that an exception of
\* env.AI.run reaches the catch of the batch processSingleFeedback
RunAnalysisUncaught ==
    /\ pc = "ai"
    /\ \E outcome \in AIOutcomes :
         IF outcome = "throw"
         THEN IF IsUnwrapped
              THEN /\ response' = ServerErrorResponse
                   /\ pc' = "errored"
                   /\ UNCHANGED <<analysis, processingResult>>
              ELSE /\ processingResult' = CaughtResult("throw")
                   /\ pc' = "result"
                   /\ UNCHANGED <<analysis, response>>
         ELSE /\ analysis' = AnalysisOf(outcome)
              /\ pc' = "update"
              /\ UNCHANGED <<processingResult, response>>
    /\ UNCHANGED <<bucket, reqs, breakdown, entry, vectorizeBound, input, validation, i, results, processedCount,
                   failedCount, feedbackData, feedback, triggered, batchResult,
                   db, vectors, invoked, attempts, triggerLog, arg, code>>

\* triggerFeedbackWorkflow: env.AI.run of the analysis model, parse, ensure types
RunAnalysis ==
    /\ pc = "ai"
    /\ \E outcome \in AIOutcomes :
         IF outcome = "throw"
         THEN /\ triggered' = FALSE
              /\ pc' = "sret"
              /\ UNCHANGED analysis
         ELSE /\ analysis' = AnalysisOf(outcome)
              /\ pc' = "update"
              /\ UNCHANGED triggered
    /\ UNCHANGED <<bucket, reqs, breakdown, entry, vectorizeBound, input, validation, i, results, processedCount,
                   failedCount, feedbackData, feedback, processingResult, batchResult,
                   response, db, vectors, invoked, attempts, arg, code, triggerLog>>

\* triggerFeedbackWorkflow: the UPDATE of the analysis fields
UpdateAnalysis ==
    /\ pc = "update"
    /\ \E ok \in BOOLEAN :
         IF ok
         THEN /\ db' = UpdateRow(db, feedback.row.id, analysis)
              /\ IF vectorizeBound
                 THEN pc' = "embed" /\ UNCHANGED triggered
                 ELSE pc' = "sret" /\ triggered' = TRUE
         ELSE /\ triggered' = FALSE
              /\ pc' = "sret"
              /\ UNCHANGED db
    /\ UNCHANGED <<bucket, reqs, breakdown, entry, vectorizeBound, input, validation, i, results, processedCount,
                   failedCount, feedbackData, feedback, analysis, processingResult,
                   batchResult, response, vectors, invoked, attempts, arg, code, triggerLog>>

\* triggerFeedbackWorkflow: env.AI.run of the embedding model (failure is logged)
GenerateEmbedding ==
    /\ pc = "embed"
    /\ \E ok \in BOOLEAN :
         IF ok
         THEN pc' = "upsert" /\ UNCHANGED triggered
         ELSE pc' = "sret" /\ triggered' = TRUE
    /\ UNCHANGED <<bucket, reqs, breakdown, entry, vectorizeBound, input, validation, i, results, processedCount,
                   failedCount, feedbackData, feedback, analysis, processingResult,
                   batchResult, response, db, vectors, invoked, attempts, arg, code, triggerLog>>

\* triggerFeedbackWorkflow: env.VECTORIZE_INDEX.upsert (failure is logged)
UpsertVector ==
    /\ pc = "upsert"
    /\ \E ok \in BOOLEAN :
         vectors' = IF ok THEN vectors \cup {feedback.row.id} ELSE vectors
    /\ triggered' = TRUE
    /\ pc' = "sret"
    /\ UNCHANGED <<bucket, reqs, breakdown, entry, vectorizeBound, input, validation, i, results, processedCount,
                   failedCount, feedbackData, feedback, analysis, processingResult,
                   batchResult, response, db, invoked, attempts, arg, code, triggerLog>>

\* the shared processSingleFeedback returns {...feedback, message} and the batch
\* processSingleFeedback returns {success: true, feedbackId: result.id}
ReturnSingle ==
    /\ pc = "sret"
    /\ ~IsUnwrapped
    /\ processingResult' = ReturnedResult(feedback)
    /\ triggerLog' = Append(triggerLog, [index |-> i, ok |-> triggered])
    /\ pc' = "result"
    /\ UNCHANGED <<bucket, reqs, breakdown, entry, vectorizeBound, input, validation, i, results, processedCount,
                   failedCount, feedbackData, feedback, analysis, triggered, batchResult,
                   response, db, vectors, invoked, attempts, arg, code>>

\* POST /api/feedback, single branch: the shared processSingleFeedback returns
\* {...feedback, message} and the endpoint answers c.json(result)
RespondSingle ==
    /\ pc = "sret"
    /\ IsUnwrapped
    /\ response' = SingleResponse(feedback, validation)
    /\ triggerLog' = Append(triggerLog, [index |-> i, ok |-> triggered])
    /\ pc' = "answered"
    /\ UNCHANGED <<bucket, reqs, breakdown, entry, vectorizeBound, input, validation, i, results, processedCount,
                   failedCount, feedbackData, feedback, analysis, triggered, batchResult,
                   processingResult, db, vectors, invoked, attempts, arg, code>>

\* variant: a failed item is recorded without failedCount++
RecordResultNoFailedCount ==
    /\ pc = "result"
    /\ IF processingResult.success
       THEN /\ results' = Append(results, SuccessResult(i, processingResult,
                                                        validation.itemResults[i + 1]))
            /\ processedCount' = processedCount + 1
       ELSE /\ results' = Append(results, ProcessingFailureResult(i, processingResult))
            /\ processedCount' = processedCount
    /\ failedCount' = failedCount
    /\ i' = i + 1
    /\ pc' = "loop"
    /\ UNCHANGED <<bucket, reqs, breakdown, entry, vectorizeBound, input, validation, feedbackData, feedback,
                   analysis, triggered, processingResult, batchResult, response, db,
                   vectors, invoked, attempts, triggerLog, arg, code>>

\* variant: a failed item ends the loop (break after the failure is recorded)
RecordResultStopOnFailure ==
    /\ pc = "result"
    /\ IF processingResult.success
       THEN /\ results' = Append(results, SuccessResult(i, processingResult,
                                                        validation.itemResults[i + 1]))
            /\ processedCount' = processedCount + 1
            /\ i' = i + 1
            /\ UNCHANGED failedCount
       ELSE /\ results' = Append(results, ProcessingFailureResult(i, processingResult))
            /\ failedCount' = failedCount + 1
            /\ i' = Len(input.items)
            /\ UNCHANGED processedCount
    /\ pc' = "loop"
    /\ UNCHANGED <<bucket, reqs, breakdown, entry, vectorizeBound, input, validation, feedbackData, feedback,
                   analysis, triggered, processingResult, batchResult, response, db,
                   vectors, invoked, attempts, triggerLog, arg, code>>

\* variant: the result is put in front of the list (unshift instead of push)
RecordResultPrepend ==
    /\ pc = "result"
    /\ IF processingResult.success
       THEN /\ results' = <<SuccessResult(i, processingResult,
                                          validation.itemResults[i + 1])>> \o results
            /\ processedCount' = processedCount + 1
            /\ UNCHANGED failedCount
       ELSE /\ results' = <<ProcessingFailureResult(i, processingResult)>> \o results
            /\ failedCount' = failedCount + 1
            /\ UNCHANGED processedCount
    /\ i' = i + 1
    /\ pc' = "loop"
    /\ UNCHANGED <<bucket, reqs, breakdown, entry, vectorizeBound, input, validation, feedbackData, feedback,
                   analysis, triggered, processingResult, batchResult, response, db,
                   vectors, invoked, attempts, arg, code, triggerLog>>

\* the loop records the processing result of index i and goes on to i + 1
RecordResult ==
    /\ pc = "result"
    /\ IF processingResult.success
       THEN /\ results' = Append(results, SuccessResult(i, processingResult,
                                                        validation.itemResults[i + 1]))
            /\ processedCount' = processedCount + 1
            /\ UNCHANGED failedCount
       ELSE /\ results' = Append(results, ProcessingFailureResult(i, processingResult))
            /\ failedCount' = failedCount + 1
            /\ UNCHANGED processedCount
    /\ i' = i + 1
    /\ pc' = "loop"
    /\ UNCHANGED <<bucket, reqs, breakdown, entry, vectorizeBound, input, validation, feedbackData, feedback,
                   analysis, triggered, processingResult, batchResult, response, db,
                   vectors, invoked, attempts, arg, code, triggerLog>>

\* variant: the loop is left as soon as one item has failed
ReturnBatchEarly ==
    /\ pc = "loop"
    /\ i >= Len(input.items) \/ failedCount > 0
    /\ batchResult' = FinalBatchResult(Len(input.items), validation, results,
                                       processedCount, failedCount)
    /\ pc' = "returned"
    /\ UNCHANGED <<bucket, reqs, breakdown, entry, vectorizeBound, input, validation, i, results, processedCount,
                   failedCount, feedbackData, feedback, analysis, triggered,
                   processingResult, response, db, vectors, invoked, attempts, arg, code, triggerLog>>

\* the loop ends and processFeedbackBatch returns
ReturnBatch ==
    /\ pc = "loop"
    /\ i >= Len(input.items)
    /\ batchResult' = FinalBatchResult(Len(input.items), validation, results,
                                       processedCount, failedCount)
    /\ pc' = "returned"
    /\ UNCHANGED <<bucket, reqs, breakdown, entry, vectorizeBound, input, validation, i, results, processedCount,
                   failedCount, feedbackData, feedback, analysis, triggered,
                   processingResult, response, db, vectors, invoked, attempts, arg, code, triggerLog>>

\* POST /api/feedback, batch branch: format the batch result and respond
Respond ==
    /\ pc = "returned"
    /\ entry = "post"
    /\ response' = BatchResponse(batchResult)
    /\ pc' = "responded"
    /\ UNCHANGED <<bucket, reqs, breakdown, entry, vectorizeBound, input, validation, i, results, processedCount,
                   failedCount, feedbackData, feedback, analysis, triggered,
                   processingResult, batchResult, db, vectors, invoked, attempts, arg, code, triggerLog>>

Next ==
    \/ ParseBody
    \/ PostFeedback
    \/ PostSingle
    \/ UploadFile
    \/ ProcessFeedbackBatch
    \/ ProcessItem
    \/ InsertFeedback
    \/ RunAnalysis
    \/ UpdateAnalysis
    \/ GenerateEmbedding
    \/ UpsertVector
    \/ ReturnSingle
    \/ RespondSingle
    \/ RecordResult
    \/ ReturnBatch
    \/ Respond

Spec == Init /\ [][Next]_vars

\* ------------------------------ processFeedbackBatch run to completion
\* A direct call of processFeedbackBatch on an array of like items; every await of the handler
\* settles (the collaborator returns or fails), so the handler always takes its
\* next step
LoopArrays ==
    {Arr([k \in 1..n |-> it]) : n \in 0..MaxLen, it \in {GoodItem, PaddedItem, NoContentItem}}

InitBatch ==
    /\ entry = "direct"
    /\ vectorizeBound \in BOOLEAN
    /\ input \in LoopArrays
    /\ pc = "call"
    /\ Idle /\ Quiet
    /\ arg = Undefined /\ code = 0

NextBatch ==
    \/ ProcessFeedbackBatch
    \/ ProcessItem
    \/ InsertFeedback
    \/ RunAnalysis
    \/ UpdateAnalysis
    \/ GenerateEmbedding
    \/ UpsertVector
    \/ ReturnSingle
    \/ RecordResult
    \/ ReturnBatch

SpecBatch == InitBatch /\ [][NextBatch]_vars /\ WF_vars(NextBatch)

\* ------------------------------------- concurrent requests on one store
\* Requests served at the same time share env.DB: two submissions, each handing
\* its items one after the other to the shared processSingleFeedback (as a batch
\* does), triage requests POST /api/inbox/:id and dashboard reads.
Submissions == {"a", "b"}
Work ==
    [a |-> <<[content |-> Str(0, 20, 0), source |-> Str(0, 6, 0), file |-> Null],
             [content |-> Str(0, 12, 0), source |-> Str(0, 3, 0), file |-> Null]>>,
     b |-> <<[content |-> Str(0, 30, 0), source |-> Str(0, 6, 0), file |-> Null]>>]
TriageStatuses == {"Archived", "Acted On"}

\* String.prototype.toLowerCase on the sentiments that occur
Lower(sentiment) ==
    CASE sentiment = "Pending" -> "pending"
      [] sentiment = "Positive" -> "positive"
      [] sentiment = "Neutral" -> "neutral"
      [] sentiment = "Negative" -> "negative"

\* item.source || 'Unknown'
SourceKey(row) == IF Falsy(row.source) THEN Unknown ELSE row.source

\* getSourceBreakdown: one entry per source; sources[source][sentiment]++ on a
\* key other than positive, neutral, negative creates that key (with value NaN)
getSourceBreakdown(rows) ==
    LET srcs == {SourceKey(rows[k]) : k \in 1..Len(rows)}
        of(src) == {k \in 1..Len(rows) : SourceKey(rows[k]) = src}
        count(src, key) == Cardinality({k \in of(src) : Lower(rows[k].sentiment) = key})
    IN [src \in srcs |->
          [source |-> src,
           positive |-> count(src, "positive"),
           neutral |-> count(src, "neutral"),
           negative |-> count(src, "negative"),
           total |-> Cardinality(of(src)),
           otherKeys |-> {Lower(rows[k].sentiment) : k \in of(src)}
                         \ {"positive", "neutral", "negative"}]]

\* the state of a submission about to insert its item k
AtItem(k) ==
    [pc |-> "insert", k |-> k, feedback |-> Undefined, analysis |-> Undefined]
\* the submission has the result of its current item and goes on to the next
Advance(p, r, result) ==
    [(IF r.k = Len(Work[p]) THEN [AtItem(r.k) EXCEPT !.pc = "done"] ELSE AtItem(r.k + 1))
        EXCEPT !.feedback = Undefined]
    @@ [out |-> Append(r.out, result)]

InitStore ==
    /\ entry = "store" /\ vectorizeBound = FALSE /\ input = Undefined
    /\ pc = "store"
    /\ Idle
    /\ reqs = [p \in Submissions |-> AtItem(1) @@ [out |-> <<>>]]
    /\ breakdown = Undefined
    /\ arg = Undefined /\ code = 0

\* shared processSingleFeedback of a submission: the INSERT ... RETURNING *
SubmitInsert ==
    /\ \E p \in Submissions, outcome \in {"row", "empty", "throw"} :
         LET r == reqs[p]
         IN /\ r.pc = "insert"
            /\ CASE outcome = "row" ->
                     LET rec == NewRecord(Len(db) + 1, Work[p][r.k])
                     IN /\ db' = Append(db, rec)
                        /\ reqs' = [reqs EXCEPT ![p].pc = "ai",
                                                ![p].feedback = [t |-> "object", row |-> rec]]
                [] outcome = "empty" ->
                     /\ reqs' = [reqs EXCEPT ![p] = Advance(p, r, ReturnedResult(Undefined))]
                     /\ UNCHANGED db
                [] OTHER ->
                     /\ reqs' = [reqs EXCEPT ![p] = Advance(p, r, CaughtResult(outcome))]
                     /\ UNCHANGED db
    /\ UNCHANGED <<bucket, breakdown, entry, vectorizeBound, input, pc, validation, i,
                   results, processedCount, failedCount, feedbackData, feedback, analysis,
                   triggered, processingResult, batchResult, response, vectors, invoked,
                   attempts, triggerLog, arg, code>>

\* triggerFeedbackWorkflow of a submission: env.AI.run, parse, ensure types
SubmitAnalysis ==
    /\ \E p \in Submissions, outcome \in AIOutcomes :
         LET r == reqs[p]
         IN /\ r.pc = "ai"
            /\ reqs' = IF outcome = "throw"
                       THEN [reqs EXCEPT ![p] = Advance(p, r, ReturnedResult(r.feedback))]
                       ELSE [reqs EXCEPT ![p].pc = "update",
                                         ![p].analysis = AnalysisOf(outcome)]
    /\ UNCHANGED <<bucket, breakdown, entry, vectorizeBound, input, pc, validation, i,
                   results, processedCount, failedCount, feedbackData, feedback, analysis,
                   triggered, processingResult, batchResult, response, db, vectors, invoked,
                   attempts, triggerLog, arg, code>>

\* triggerFeedbackWorkflow of a submission: the UPDATE (VECTORIZE_INDEX is not
\* bound), then the return to the caller
SubmitUpdate ==
    /\ \E p \in Submissions, ok \in BOOLEAN :
         LET r == reqs[p]
         IN /\ r.pc = "update"
            /\ db' = IF ok THEN UpdateRow(db, r.feedback.row.id, r.analysis) ELSE db
            /\ reqs' = [reqs EXCEPT ![p] = Advance(p, r, ReturnedResult(r.feedback))]
    /\ UNCHANGED <<bucket, breakdown, entry, vectorizeBound, input, pc, validation, i,
                   results, processedCount, failedCount, feedbackData, feedback, analysis,
                   triggered, processingResult, batchResult, response, vectors, invoked,
                   attempts, triggerLog, arg, code>>

\* POST /api/inbox/:id: UPDATE feedback SET status = ? WHERE id = ?
Triage ==
    /\ \E k \in 1..Len(db), status \in TriageStatuses :
         db' = [db EXCEPT ![k].status = status]
    /\ UNCHANGED <<bucket, reqs, breakdown, entry, vectorizeBound, input, pc, validation,
                   i, results, processedCount, failedCount, feedbackData, feedback,
                   analysis, triggered, processingResult, batchResult, response, vectors,
                   invoked, attempts, triggerLog, arg, code>>

\* GET /api/dashboard: the rows of the period with status 'New' or 'Pending' are
\* read and given to getSourceBreakdown
Dashboard ==
    /\ LET rows == SelectSeq(db, LAMBDA row : row.status \in {"New", "Pending"})
       IN breakdown' = [read |-> Len(rows), sources |-> getSourceBreakdown(rows)]
    /\ UNCHANGED <<bucket, reqs, entry, vectorizeBound, input, pc, validation,
                   i, results, processedCount, failedCount, feedbackData, feedback,
                   analysis, triggered, processingResult, batchResult, response, db,
                   vectors, invoked, attempts, triggerLog, arg, code>>

NextStore ==
    \/ SubmitInsert
    \/ SubmitAnalysis
    \/ SubmitUpdate
    \/ Triage
    \/ Dashboard

SpecStore == InitStore /\ [][NextStore]_vars

\* ------------------------------------------- the classifier on its own
\* Batch results with any counts, with and without batch-level errors
ClassifierArgs ==
    [success : {FALSE}, total : 0..MaxCount, processed : 0..MaxCount, failed : 0..MaxCount,
     batchErrors : {Undefined, JsArr(<<>>), JsArr(<<"items failed validation">>)},
     validationSummary : {EmptySummary}, results : {<<>>}]

InitClassify ==
    /\ entry = "classify" /\ vectorizeBound = FALSE /\ input = Undefined
    /\ pc = "classify"
    /\ Idle /\ Quiet
    /\ arg \in ClassifierArgs
    /\ code = 0

Classify ==
    /\ pc = "classify"
    /\ code' = determineHttpStatusCode(arg)
    /\ pc' = "classified"
    /\ UNCHANGED <<bucket, reqs, breakdown, entry, vectorizeBound, input, validation, i, results, processedCount,
                   failedCount, feedbackData, feedback, analysis, triggered,
                   processingResult, batchResult, response, db, vectors, invoked,
                   attempts, arg, triggerLog>>

NextClassify == Classify

SpecClassify == InitClassify /\ [][NextClassify]_vars

\* ------------------------------------------- the validators on their own
\* Values of each field, on both sides of every rule of validateFeedbackItem
ItemContents ==
    {Undefined, Null, Num(3), Str(0, 0, 0), Str(2, 0, 1), Str(0, 3, 0), Str(0, 20, 0),
     Str(0, 5001, 0), Str(0, 10000, 0), Str(0, 10001, 0)}
ItemSources ==
    {Undefined, Num(1), Str(1, 0, 0), Str(0, 6, 0), Str(0, 255, 0), Str(0, 256, 0)}
ItemMetadata ==
    {Undefined, Null, Num(7), Str(0, 2, 0), ArrItem}
    \cup {Meta(p, c, ts, u) :
             p \in {Undefined, Str(0, 4, 0), Num(1), Str(0, 51, 0)},
             c \in {Undefined, Num(2), Str(0, 101, 0)},
             ts \in {Undefined, Num(5), DateStr(0, 24, 0), Str(0, 9, 0)},
             u \in {Undefined, Null, Str(0, 256, 0)}}
ItemExtras == {{}, {"tag"}, {"id", "tag"}}
ObjectItems ==
    {Obj(c, s, m, x) : c \in ItemContents, s \in ItemSources, m \in ItemMetadata,
                       x \in ItemExtras}
\* null, undefined, a number, a string, and an array
NonObjectItems == {Null, Undefined, Num(5), Str(0, 4, 0), ArrItem}
ValidatorItems == ObjectItems \cup NonObjectItems

\* an item that fails validation and has warnings
WarnedBadItem == Obj(Str(0, 3, 0), Undefined, Undefined, {"tag"})
BatchItems == Items \cup {WarnedBadItem}
ValidatorArrays ==
    {Arr(seq) : seq \in UNION {[1..n -> BatchItems] : n \in 0..MaxLen}}
    \cup FullArrays \cup OversizedArrays
    \cup {Arr([k \in 1..maxBatchSize |-> IF k % 2 = 0 THEN PaddedItem ELSE GoodItem])}
ValidatorInputs == ValidatorArrays \cup NonArrays \cup {Undefined, GoodItem}

InitValidate ==
    /\ entry \in {"item", "batch"}
    /\ vectorizeBound = FALSE
    /\ input \in ValidatorItems \cup ValidatorInputs
    /\ entry = "item" => input \in ValidatorItems
    /\ entry = "batch" => input \in ValidatorInputs
    /\ pc = "validate"
    /\ Idle /\ Quiet
    /\ arg = Undefined /\ code = 0

\* validateFeedbackItem(feedbackItem) with the default index
ValidateItem ==
    /\ pc = "validate" /\ entry = "item"
    /\ validation' = validateFeedbackItem(input, 0)
    /\ pc' = "validated"
    /\ UNCHANGED <<bucket, reqs, breakdown, entry, vectorizeBound, input, i, results, processedCount,
                   failedCount, feedbackData, feedback, analysis, triggered,
                   processingResult, batchResult, response, db, vectors, invoked,
                   attempts, arg, code, triggerLog>>

\* validateFeedbackBatch(feedbackArray)
ValidateBatch ==
    /\ pc = "validate" /\ entry = "batch"
    /\ validation' = validateFeedbackBatch(input)
    /\ pc' = "validated"
    /\ UNCHANGED <<bucket, reqs, breakdown, entry, vectorizeBound, input, i, results, processedCount,
                   failedCount, feedbackData, feedback, analysis, triggered,
                   processingResult, batchResult, response, db, vectors, invoked,
                   attempts, arg, code, triggerLog>>

NextValidate == ValidateItem \/ ValidateBatch

SpecValidate == InitValidate /\ [][NextValidate]_vars

\* ---------------------------------------------------------------- claims
\* processFeedbackBatch has returned (and the endpoint may have responded)
Returned == pc \in {"returned", "responded"}
\* the request has reached its end
Finished == pc \in {"returned", "responded", "rejected", "raised"}
N == Len(input.items)
SizedArray == IsArray(input) /\ N >= 1 /\ N <= maxBatchSize
ItemValid(k) == validateFeedbackItem(input.items[k], k - 1).success
InvalidIndices == {k \in 1..N : ~ItemValid(k)}
MissingContent(item) == item.t = "object" /\ IsUndefined(item.content)
InvokedCount(idx) == Cardinality({k \in 1..Len(invoked) : invoked[k] = idx})
AttemptCount(idx) == Cardinality({k \in 1..Len(attempts) : attempts[k].index = idx})
WriteSucceeded(idx) == \E k \in 1..Len(attempts) : attempts[k].index = idx /\ attempts[k].outcome = "row"
AllWritesSucceed == \A k \in 1..Len(attempts) : attempts[k].outcome = "row"
Threw(outcome) == outcome \in {"throw", "throwNoMessage"}
SuccessCount(rs) == Cardinality({k \in 1..Len(rs) : rs[k].success})
HasId(r) == r.feedbackId.t = "number"
\* the batch was rejected by a batch-level check: nothing was validated item by item
BatchLevelRejection == LET v == validateFeedbackBatch(input) IN ~v.success /\ Len(v.itemResults) = 0

\* C1: in a batch of 1..100 items where item k misses content and every other item
\* is well-formed, results[k] is a failure with a non-empty fieldErrors.content and
\* every other index is handed to the single-item processor once, with one insert,
\* and is reported success with a feedbackId when its insert succeeds.
C1_ValidationIsolation ==
    (Returned /\ SizedArray) =>
        \A k \in 1..N :
            (MissingContent(input.items[k]) /\ \A j \in (1..N) \ {k} : ItemValid(j)) =>
                LET rs == batchResult.results
                IN /\ Len(rs) = N
                   /\ ~rs[k].success
                   /\ rs[k].fieldErrors.t = "object"
                   /\ "content" \in DOMAIN rs[k].fieldErrors.map
                   /\ Len(rs[k].fieldErrors.map["content"]) > 0
                   /\ \A j \in (1..N) \ {k} :
                        /\ InvokedCount(j - 1) = 1
                        /\ AttemptCount(j - 1) = 1
                        /\ WriteSucceeded(j - 1) => (rs[j].success /\ HasId(rs[j]))

\* C2: for a batch of n >= 2 items of which a non-empty proper subset of m items is
\* invalid, with every write succeeding, the outcome is status 207 with
\* processed = n - m, failed = m and n results, exactly the invalid ones failed:
\* for the response of the endpoint and for the batch result classified directly.
C2_PartialSuccess ==
    (Finished /\ SizedArray /\ N >= 2 /\ InvalidIndices # {} /\ InvalidIndices # 1..N
        /\ AllWritesSucceed) =>
        LET m == Cardinality(InvalidIndices)
        IN IF entry = "post"
           THEN (pc \in {"rejected", "responded"}) =>
                    /\ response.status = 207
                    /\ response.processed = Num(N - m)
                    /\ response.failed = Num(m)
                    /\ response.results.t = "array"
                    /\ Len(response.results.v) = N
                    /\ \A k \in 1..N : response.results.v[k].success <=> ItemValid(k)
           ELSE (pc = "returned") =>
                    /\ determineHttpStatusCode(batchResult) = 207
                    /\ batchResult.processed = N - m
                    /\ batchResult.failed = m
                    /\ Len(batchResult.results) = N
                    /\ \A k \in 1..N : batchResult.results[k].success <=> ItemValid(k)

\* C3: for an array of 1..100 well-formed items whose inserts all succeed, the batch
\* result has processed = total, failed = 0, success = true, is classified 200, and
\* every result carries a feedbackId.
C3_CompleteSuccess ==
    (Returned /\ SizedArray /\ InvalidIndices = {} /\ AllWritesSucceed) =>
        /\ batchResult.total = N
        /\ batchResult.processed = batchResult.total
        /\ batchResult.failed = 0
        /\ batchResult.success
        /\ determineHttpStatusCode(batchResult) = 200
        /\ Len(batchResult.results) = N
        /\ \A k \in 1..N : batchResult.results[k].success /\ HasId(batchResult.results[k])

\* a batch of several valid items, all inserted, one of them with a failed analysis
C3_Witness ==
    /\ Returned /\ SizedArray /\ N >= 2 /\ InvalidIndices = {} /\ AllWritesSucceed
    /\ Len(attempts) = N
    /\ \E k \in 1..Len(triggerLog) : ~triggerLog[k].ok

\* C4: every value returned by processFeedbackBatch has processed + failed = total
\* and one result per original index, and on a batch-level rejection processed = 0
\* and failed = total.
C4_CountInvariant ==
    Returned =>
        /\ batchResult.processed + batchResult.failed = batchResult.total
        /\ Len(batchResult.results) = batchResult.total
        /\ \A k \in 1..Len(batchResult.results) : batchResult.results[k].index = k - 1
        /\ BatchLevelRejection =>
              (batchResult.processed = 0 /\ batchResult.failed = batchResult.total)

\* C5: results[i].index = i at every position, in the list being built by the loop
\* and in the list returned on either path.
C5_IndexAlignment ==
    /\ \A k \in 1..Len(results) : results[k].index = k - 1
    /\ Returned => \A k \in 1..Len(batchResult.results) : batchResult.results[k].index = k - 1

\* the loop has returned a list mixing a processing failure and a success
C5_Witness ==
    /\ pc = "returned" /\ validation.success /\ Len(batchResult.results) >= 2
    /\ \E k \in 1..Len(batchResult.results) : batchResult.results[k].success
    /\ \E k \in 2..Len(batchResult.results) : batchResult.results[k].processingError

\* The decision table of the classifier, read as the first row whose condition holds
DecisionTable(b) ==
    <<[when |-> HasBatchErrors(b), status |-> 400],
      [when |-> b.total = 0, status |-> 400],
      [when |-> b.failed = b.total, status |-> 400],
      [when |-> b.processed > 0 /\ b.failed > 0, status |-> 207],
      [when |-> b.processed = b.total, status |-> 200],
      [when |-> TRUE, status |-> 500]>>
FirstRow(table) == CHOOSE r \in 1..Len(table) : table[r].when /\ \A q \in 1..(r - 1) : ~table[q].when
TableStatus(b) == DecisionTable(b)[FirstRow(DecisionTable(b))].status

\* C6: determineHttpStatusCode returns the status of the first matching row of the
\* decision table for every combination of batch errors, total, processed and
\* failed, and leaves its argument as it was.
C6_DecisionTable ==
    [][pc' = "classified" => (code' = TableStatus(arg) /\ arg' = arg)]_vars

\* classified results of every row of the table, here the fallback row
C6_Witness ==
    pc = "classified" /\ code = 500 /\ arg.processed > 0 /\ ~HasBatchErrors(arg)

\* C7: every batch result returned by processFeedbackBatch is classified 200, 207
\* or 400, and 200 exactly when failed = 0 and total >= 1.
C7_FallbackUnreachable ==
    Returned =>
        LET status == determineHttpStatusCode(batchResult)
        IN /\ status \in {200, 207, 400}
           /\ status = 200 <=> (batchResult.failed = 0 /\ batchResult.total >= 1)

\* a returned batch with a failed insert and a successful one, classified 207
C7_Witness ==
    /\ pc = "returned" /\ validation.success
    /\ batchResult.failed > 0 /\ batchResult.processed > 0
    /\ determineHttpStatusCode(batchResult) = 207

\* C8: in a batch whose items all pass validation, whatever inserts fail, every index
\* is passed to the single-item processor exactly once and in order, each result
\* is decided by the item's own insert alone, there is one result per index, and
\* a failed index carries success = false and an error string.
C8_ProcessingIsolation ==
    (Returned /\ validation.success) =>
        /\ invoked = [k \in 1..N |-> k - 1]
        /\ Len(attempts) = N
        /\ Len(batchResult.results) = N
        /\ \A k \in 1..N :
             LET r == batchResult.results[k]
             IN /\ attempts[k].index = k - 1
                /\ r.index = k - 1
                /\ r.success <=> ~Threw(attempts[k].outcome)
                /\ Threw(attempts[k].outcome) =>
                      (r.error.t = "message" /\ r.error.msg # "" /\ ~HasId(r))

\* the insert of index 0 threw and index 1 was still processed and succeeded
C8_Witness ==
    /\ pc = "returned" /\ validation.success /\ N >= 2
    /\ Threw(attempts[1].outcome) /\ attempts[2].outcome = "row"
    /\ ~batchResult.results[1].success /\ batchResult.results[2].success

\* C9: the batch processSingleFeedback never raises: no run ends raised once an item
\* was passed to it, and what it returns is a success without error, carrying the
\* id of the inserted row, or a failure with a non-empty error string; an insert
\* that threw gives the failure.
C9_NeverRaises ==
    /\ pc = "raised" => invoked = <<>>
    /\ pc = "result" =>
         LET pr == processingResult
             last == attempts[Len(attempts)]
         IN /\ Threw(last.outcome) <=> ~pr.success
            /\ pr.success =>
                  /\ IsUndefined(pr.error)
                  /\ last.outcome = "row" => pr.feedbackId = Num(feedback.row.id)
            /\ ~pr.success =>
                  (pr.error.t = "message" /\ pr.error.msg # "" /\ IsUndefined(pr.feedbackId))

\* an insert threw an error without message and the failure value was returned
C9_Witness ==
    /\ pc = "result" /\ attempts[Len(attempts)].outcome = "throwNoMessage"
    /\ ~processingResult.success

\* C10: an item whose insert succeeded is reported success with its feedbackId and
\* without error whatever happened in its analysis, and counts toward processed.
C10_BestEffortAnalysis ==
    (Returned /\ validation.success) =>
        /\ Len(batchResult.results) = N
        /\ batchResult.processed = SuccessCount(batchResult.results)
        /\ \A k \in 1..Len(attempts) :
             attempts[k].outcome = "row" =>
                LET r == batchResult.results[attempts[k].index + 1]
                IN r.success /\ HasId(r) /\ IsUndefined(r.error) /\ ~r.processingError

\* a returned batch holding an inserted item whose analysis failed
C10_Witness ==
    /\ pc = "returned" /\ validation.success
    /\ \E k \in 1..Len(triggerLog) :
         /\ ~triggerLog[k].ok
         /\ WriteSucceeded(triggerLog[k].index)
         /\ batchResult.results[triggerLog[k].index + 1].success

\* C11: once the insert of an item has returned its row, processSingleFeedback
\* returns to the orchestrator without waiting for the analysis of that item: while
\* the analysis is still pending the return to the loop (and so the next index or
\* the batch result) can happen.
C11_AnalysisDispatched ==
    (~IsUnwrapped /\ pc \in {"ai", "update"}) => ENABLED ReturnSingle

\* what the code does instead: when the insert of an index is attempted, and when
\* the batch returns, triggerFeedbackWorkflow has returned for every earlier index
\* whose insert returned a row
AnalysisAwaited ==
    (~IsUnwrapped /\ pc \in {"insert", "returned"}) =>
        \A k \in 1..Len(attempts) :
            attempts[k].outcome = "row" =>
                \E j \in 1..Len(triggerLog) : triggerLog[j].index = attempts[k].index

\* C12: a record whose analysis has not completed (its INSERT has returned, the
\* analysis model has not been called yet) has state "Pending", not "New".
C12_CreatedPending ==
    \A k \in 1..Len(db) :
        (pc = "ai" /\ feedback.t = "object" /\ db[k].id = feedback.row.id) =>
            db[k].status = "Pending"

\* C13: POST /api/feedback with an empty array is answered 400 with a non-empty
\* batch-level error list and results equal to the empty list, and nothing is
\* persisted.
C13_EmptyBatch ==
    (entry = "post" /\ input = Arr(<<>>) /\ pc \in {"rejected", "responded"}) =>
        /\ response.status = 400
        /\ response.batchErrors.t = "array" /\ Len(response.batchErrors.v) > 0
        /\ response.results = JsArr(<<>>)
        /\ db = <<>>

\* C14: an array of more than 100 items is rejected with status 400 and the
\* batch-level size error whatever its items, no item is validated individually and
\* nothing is persisted; an array of exactly 100 items does not get the size error
\* and its items are validated one by one.
C14_BatchSizeLimit ==
    /\ (entry = "post" /\ IsArray(input) /\ pc \notin {"parse", "start"}) =>
          /\ N > maxBatchSize =>
                /\ pc = "rejected"
                /\ response.status = 400
                /\ response.batchErrors = JsArr(<<"Batch size too large">>)
                /\ IsUndefined(response.itemValidation)
                /\ db = <<>> /\ attempts = <<>>
          /\ (N = maxBatchSize /\ pc = "rejected") =>
                /\ response.batchErrors # JsArr(<<"Batch size too large">>)
                /\ Len(response.itemValidation.v) = N
    /\ (entry = "direct" /\ IsArray(input) /\ pc # "call") =>
          /\ N > maxBatchSize =>
                /\ pc = "returned"
                /\ determineHttpStatusCode(batchResult) = 400
                /\ batchResult.batchErrors = JsArr(<<"Batch size too large">>)
                /\ validation.itemResults = <<>>
                /\ db = <<>> /\ attempts = <<>>
          /\ N = maxBatchSize =>
                /\ batchResult.batchErrors # JsArr(<<"Batch size too large">>)
                /\ Len(validation.itemResults) = N

\* a posted array of 101 items has been rejected
C14_Witness ==
    /\ entry = "post" /\ IsArray(input) /\ N = maxBatchSize + 1
    /\ pc = "rejected" /\ response.status = 400

\* the validator under test has returned
ItemValidated == entry = "item" /\ pc = "validated"
BatchValidated == entry = "batch" /\ pc = "validated"

\* C15: for an item that is null, a primitive or an array, validateFeedbackItem
\* returns success false with exactly one general error and no field errors.
C15_NonObjectItems ==
    (ItemValidated /\ input.t # "object") =>
        /\ ~validation.success
        /\ Len(validation.generalErrors) = 1
        /\ DOMAIN validation.fieldErrors = {}

\* C16: for an array of 1..100 elements validateFeedbackBatch returns the result of
\* validateFeedbackItem for every index in input order, total = number of item
\* results = valid + invalid, valid = number of successful items, warnings = number
\* of items with at least one warning, success iff invalid = 0; for a value that is
\* not an array, an empty array or an array over the limit, itemResults is empty and
\* batchErrors is not.
C16_BatchSummary ==
    BatchValidated =>
        LET v == validation
            sum == v.summary
        IN IF SizedArray
           THEN /\ Len(v.itemResults) = N
                /\ \A k \in 1..N :
                      /\ v.itemResults[k].index = k - 1
                      /\ v.itemResults[k] = validateFeedbackItem(input.items[k], k - 1)
                /\ sum.total = N
                /\ sum.total = sum.valid + sum.invalid
                /\ sum.valid = Cardinality({k \in 1..N : ItemValid(k)})
                /\ sum.warnings =
                      Cardinality({k \in 1..N :
                          Len(validateFeedbackItem(input.items[k], k - 1).warnings) > 0})
                /\ v.success <=> (sum.invalid = 0)
           ELSE /\ v.itemResults = <<>>
                /\ Len(v.batchErrors) > 0
                /\ ~v.success

\* an array with a valid item, and an invalid item that has a warning, was validated
C16_Witness ==
    /\ BatchValidated /\ SizedArray
    /\ validation.summary.valid > 0
    /\ \E k \in 1..N : ~validation.itemResults[k].success
                        /\ Len(validation.itemResults[k].warnings) > 0

\* the rules of the Item Validator, each stated on its own
ContentViolated(c) ==
    \/ c.t # "string"
    \/ c.core = 0
    \/ c.lead + c.core + c.trail > MaxContentLen
SourceViolated(s) ==
    \/ s.t # "string"
    \/ s.core = 0
    \/ s.lead + s.core + s.trail > MaxSourceLen
SubFieldLimit(f) ==
    CASE f = "priority" -> MaxPriorityLen
      [] f = "category" -> MaxCategoryLen
      [] f = "userId" -> MaxUserIdLen
SubFieldViolated(m, f) ==
    /\ m[f].t # "undefined"
    /\ \/ m[f].t # "string"
       \/ IF f = "timestamp" THEN ~m[f].date
          ELSE m[f].lead + m[f].core + m[f].trail > SubFieldLimit(f)
SubFields == {"priority", "category", "timestamp", "userId"}
ViolatedSubFields(m) == {f \in SubFields : SubFieldViolated(m, f)}
MetadataViolated(m) ==
    \/ m.t \in {"null", "number", "string"}
    \/ m.t = "object" /\ ViolatedSubFields(m) # {}
\* the messages a sub-field can contribute
SubFieldMessages(f) ==
    {f \o " must be a string", f \o " too long", f \o " must be a valid ISO date string"}

\* C17: an object item has a fieldErrors entry for each of content, source and
\* metadata whose rule it violates, whatever the other fields, and every violated
\* metadata sub-field has its own message in the metadata list.
C17_ErrorAccumulation ==
    (ItemValidated /\ input.t = "object") =>
        LET fe == validation.fieldErrors
            m == input.metadata
        IN /\ ContentViolated(input.content) => "content" \in DOMAIN fe
           /\ SourceViolated(input.source) => "source" \in DOMAIN fe
           /\ MetadataViolated(m) => "metadata" \in DOMAIN fe
           /\ (m.t = "object" /\ ViolatedSubFields(m) # {}) =>
                 /\ Len(fe["metadata"]) = Cardinality(ViolatedSubFields(m))
                 /\ \A f \in ViolatedSubFields(m) :
                       \E j \in 1..Len(fe["metadata"]) : fe["metadata"][j] \in SubFieldMessages(f)

\* an item with missing content, an over-long source and four violated metadata
\* sub-fields was validated
C17_Witness ==
    /\ ItemValidated /\ input.t = "object"
    /\ IsUndefined(input.content)
    /\ input.source.t = "string" /\ StrLen(input.source) > MaxSourceLen
    /\ input.metadata.t = "object" /\ ViolatedSubFields(input.metadata) = SubFields
    /\ DOMAIN validation.fieldErrors = {"content", "source", "metadata"}

\* C18: the result for an object item with extra top-level fields is the result
\* for the same item without them (same success, fieldErrors, generalErrors, same
\* warnings) plus exactly one more warning, which lists all the extra fields.
C18_UnknownFieldsTolerated ==
    (ItemValidated /\ input.t = "object" /\ input.extra # {}) =>
        LET base == validateFeedbackItem([input EXCEPT !.extra = {}], 0)
            w == validation.warnings
            n == Len(base.warnings)
        IN /\ validation.success = base.success
           /\ validation.fieldErrors = base.fieldErrors
           /\ validation.generalErrors = base.generalErrors
           /\ Len(w) = n + 1
           /\ \A j \in 1..n : w[j] = base.warnings[j] /\ w[j].fields = {}
           /\ w[n + 1].fields = input.extra

\* an otherwise invalid item with two extra fields was validated
C18_Witness ==
    /\ ItemValidated /\ input.t = "object"
    /\ Cardinality(input.extra) = 2
    /\ ~validation.success
    /\ Len(validation.warnings) = 2

\* C19: a POST /api/feedback whose body is not JSON is answered 400 and nothing is
\* processed or persisted.
C19_MalformedPayload ==
    (entry = "post" /\ input = Malformed /\ pc # "parse") =>
        /\ response.status = 400
        /\ db = <<>> /\ attempts = <<>>

\* C20: an unwrapped item posted to the endpoint is answered 200 when
\* validateFeedbackItem accepts it and no write fails, and 400 with a non-empty
\* fieldErrors object when validateFeedbackItem rejects it.
C20_SameItemShape ==
    (IsSingle /\ pc \in {"answered", "refused", "errored"}) =>
        LET v == validateFeedbackItem(input, 0)
        IN /\ (v.success /\ pc # "errored") => response.status = 200
           /\ ~v.success => (response.status = 400 /\ DOMAIN response.fieldErrors # {})

\* C22: every entry of a batch result has exactly one of feedbackId and error:
\* a success entry has a feedbackId and no error, a failure entry has an error and
\* no feedbackId, whatever the INSERT does (a row, no row, an exception).
C22_IdOrError ==
    Returned =>
        \A k \in 1..Len(batchResult.results) :
            LET r == batchResult.results[k]
            IN IF r.success
               THEN HasId(r) /\ IsUndefined(r.error)
               ELSE ~IsUndefined(r.error) /\ IsUndefined(r.feedbackId)

\* the attempts whose INSERT returned a row, in the order they were issued
RowAttempts == SelectSeq(attempts, LAMBDA a : a.outcome = "row")

\* C23: processFeedbackBatch never hands an index that failed validation to the
\* single-item processor, and every record it inserts holds the trimmed content
\* and source of a valid item: non-empty, at most 10000 and 255 characters.
C23_OnlyValidTrimmed ==
    IsArray(input) =>
        /\ \A k \in 1..Len(invoked) : ItemValid(invoked[k] + 1)
        /\ Len(db) = Len(RowAttempts)
        /\ \A k \in 1..Len(db) :
              LET item == input.items[RowAttempts[k].index + 1]
              IN /\ ItemValid(RowAttempts[k].index + 1)
                 /\ db[k].content = Trim(item.content)
                 /\ db[k].source = Trim(item.source)
                 /\ db[k].content.lead = 0 /\ db[k].content.trail = 0
                 /\ db[k].source.lead = 0 /\ db[k].source.trail = 0
                 /\ StrLen(db[k].content) \in 1..MaxContentLen
                 /\ StrLen(db[k].source) \in 1..MaxSourceLen

\* a record was inserted for an item submitted with surrounding whitespace
C23_Witness ==
    /\ IsArray(input) /\ Len(db) > 0
    /\ \E k \in 1..Len(db) :
          LET item == input.items[RowAttempts[k].index + 1]
          IN item.content.lead > 0 /\ item.source.lead > 0 /\ db[k].content = Trim(item.content)

\* C24: the items of a batch are processed in index order, one at a time: the
\* insert of an index is issued only when the results of all earlier indices are
\* recorded, inserts occur in increasing index order and results[k] is index k.
C24_Sequential ==
    IsArray(input) =>
        /\ \A j, k \in 1..Len(attempts) : j < k => attempts[j].index < attempts[k].index
        /\ \A k \in 1..Len(results) : results[k].index = k - 1
        /\ \A k \in 1..Len(attempts) : attempts[k].index <= Len(results)
        /\ pc \in {"insert", "ai", "update", "embed", "upsert", "sret", "result"} =>
              Len(results) = i

\* the insert of the third item is about to be issued after two recorded results
C24_Witness ==
    /\ IsArray(input) /\ pc = "insert" /\ i = 2
    /\ Len(attempts) = 2 /\ Len(results) = 2

InTrigger == pc \in {"ai", "update", "embed", "upsert"}
\* the row of table feedback with the given id
RowOf(rows, id) == rows[CHOOSE k \in 1..Len(rows) : rows[k].id = id]
AnalysisFields(row) ==
    <<row.sentiment, row.urgency_score, row.urgency_reason, row.themes, row.status>>

\* C30: when triggerFeedbackWorkflow returns false the record is exactly as the
\* INSERT wrote it; when it returns true the record holds the analysis, written by
\* one UPDATE even if the vector indexing failed; no step of
\* triggerFeedbackWorkflow touches another record.
C30_FailedAnalysisFrame ==
    /\ []((pc = "sret" /\ feedback.t = "object") =>
            LET row == RowOf(db, feedback.row.id)
            IN IF triggered
               THEN /\ AnalysisFields(row) =
                          <<analysis.sentiment, analysis.urgency_score,
                            analysis.urgency_reason, analysis.themes, "New">>
                    /\ row.content = feedback.row.content
                    /\ row.source = feedback.row.source
               ELSE row = feedback.row)
    /\ [][InTrigger =>
            /\ Len(db') = Len(db)
            /\ \A k \in 1..Len(db) : db[k].id # feedback.row.id => db'[k] = db[k]
            /\ db' # db => (pc = "update" /\ pc' # "update")]_vars

\* triggerFeedbackWorkflow returned false for a record while an earlier record
\* holds its analysis
C30_Witness ==
    /\ pc = "sret" /\ feedback.t = "object" /\ ~triggered
    /\ \E k \in 1..Len(db) : db[k].id # feedback.row.id /\ db[k].sentiment # "Pending"

\* C26: once processFeedbackBatch has started its loop on an array of n items it
\* eventually returns, with a result recorded for every index 0..n-1 whatever
\* failed on the way.
C26_AlwaysFinalResult ==
    (pc = "loop" /\ i = 0 /\ results = <<>>) ~>
        (/\ pc = "returned"
         /\ Len(batchResult.results) = N
         /\ \A k \in 1..N : batchResult.results[k].index = k - 1
         /\ batchResult.processed + batchResult.failed = N)

\* a batch whose first item failed in processing has returned with all its results
C26_Witness ==
    /\ pc = "returned" /\ validation.success /\ N >= 2
    /\ Len(batchResult.results) = N
    /\ ~batchResult.results[1].success
    /\ batchResult.results[N].success

\* C21: when POST /api/feedback answers 500 the request has left nothing behind:
\* no feedback record and no attachment in the object store.
C21_NoPartialSystemError ==
    (entry = "post" /\ response # Undefined /\ response.status = 500) =>
        /\ db = <<>>
        /\ bucket = {}

\* the results the submissions have reported so far, as (submission, position)
Reported == {pk \in Submissions \X (1..2) : pk[2] <= Len(reqs[pk[1]].out)}
ResultAt(pk) == reqs[pk[1]].out[pk[2]]
Successful == {pk \in Reported : ResultAt(pk).success}
AllDone == \A p \in Submissions : reqs[p].pc = "done"

\* under every interleaving the identifiers that were reported are pairwise
\* distinct and each names the record holding that item's content and source
StoreIdsDistinct ==
    \A pk \in Successful :
        HasId(ResultAt(pk)) =>
            /\ \A qk \in Successful \ {pk} :
                  HasId(ResultAt(qk)) => ResultAt(qk).feedbackId # ResultAt(pk).feedbackId
            /\ \E k \in 1..Len(db) :
                  /\ Num(db[k].id) = ResultAt(pk).feedbackId
                  /\ db[k].content = Work[pk[1]][pk[2]].content
                  /\ db[k].source = Work[pk[1]][pk[2]].source

\* no step changes the content or the source of a record that already exists
StoreContentKept ==
    [][/\ Len(db') >= Len(db)
       /\ \A k \in 1..Len(db) :
             /\ db'[k].id = db[k].id
             /\ db'[k].content = db[k].content
             /\ db'[k].source = db[k].source]_vars

\* C25: once the concurrent submissions have finished, every successful item
\* has its own record: the reported feedbackIds are pairwise distinct and name
\* records of the store, the store has grown by exactly the number of successful
\* items, and no step changed the content or source of an existing record.
C25_IndependentStorage ==
    /\ [](StoreIdsDistinct /\ (AllDone =>
            /\ Len(db) = Cardinality(Successful)
            /\ \A pk \in Successful : HasId(ResultAt(pk))))
    /\ StoreContentKept

\* C27: a step of the ingestion and analysis pipeline never changes the status
\* of a record that triage has set to 'Archived' or 'Acted On'.
C27_TriageKept ==
    [][reqs' # reqs =>
         \A k \in 1..Len(db) :
             db[k].status \in TriageStatuses => db'[k].status = db[k].status]_vars

RECURSIVE SumTotals(_, _)
SumTotals(sources, S) ==
    IF S = {} THEN 0
    ELSE LET src == CHOOSE x \in S : TRUE
         IN sources[src].total + SumTotals(sources, S \ {src})

\* the totals of the entries sum to the number of records read
BreakdownTotalsAddUp ==
    breakdown # Undefined =>
        SumTotals(breakdown.sources, DOMAIN breakdown.sources) = breakdown.read

\* C29: in every breakdown the dashboard computes from the store, each source's
\* positive, neutral and negative counts add up to its total, and the totals add
\* up to the number of records read.
C29_BreakdownAddsUp ==
    breakdown # Undefined =>
        /\ \A src \in DOMAIN breakdown.sources :
              LET e == breakdown.sources[src]
              IN e.positive + e.neutral + e.negative = e.total
        /\ SumTotals(breakdown.sources, DOMAIN breakdown.sources) = breakdown.read

====
